---- MODULE Spec2Model ----
(***************************************************************************)
(* Price-history resolution of GhostPrice: PriceTracker of                 *)
(* archive/price_tracker.py (SQLite store, Apify import, window            *)
(* statistics) and the Apify response parser of apify_client.py.           *)
(*                                                                         *)
(* Time is counted in days.  A stored timestamp is the text SQLite         *)
(* compares: datetime('now') writes "YYYY-MM-DD HH:MM:SS" (separator       *)
(* " "), the importer writes "YYYY-MM-DDT00:00:00" (separator "T"), and    *)
(* the two are compared as strings.                                        *)
(***************************************************************************)
EXTENDS Integers, Sequences, FiniteSets, Bags, TLC

\* ---- bounds of the model ------------------------------------------------
MaxNow == 1
MaxRows == 5
MaxHist == 2

\* ---- program constants --------------------------------------------------
MIN_SAMPLES == 5
MIN_AFTER_IMPORT == 2

\* ---- input domains ------------------------------------------------------
Procs == {1, 2}
Asins == {"A", "B"}
\* the product the statistics requests and imports are about
Requested == {"A"}
Countries == {"US", "us", "IN"}

\* the spellings the statistics requests are sent with
StatsCountries == {"US", "IN"}
DaysSet == {1, 30}
\* the price a visitor sees on a day
PriceOn(d) == IF d % 2 = 0 THEN 10 ELSE 20
\* dates of provider entries: one day before the clock starts, and day 0
RawDates == {-1, 0}
\* a raw price is <<>> (JSON null) or <<v>>; 0 is the largest non-positive
\* value a provider reports for "out of stock"
RawPrices == {<<>>, <<0>>, <<15>>}
RawEntries == [date : RawDates, price : RawPrices]

SeqsUpTo(S, n) == UNION {[1..k -> S] : k \in 0..n}

\* the price-history lists a provider run can return, oldest entry first
Responses ==
    {h \in SeqsUpTo(RawEntries, MaxHist) :
        \A i \in 1..(Len(h) - 1) : h[i].date <= h[i + 1].date}

\* ---- text of timestamps -------------------------------------------------
Upper(c) == IF c = "us" THEN "US" ELSE c

NowTs(d) == [day |-> d, sep |-> " "]

DateToTs(d) == [day |-> d, sep |-> "T"]

\* string comparison a > b of two timestamp texts (" " sorts before "T")
TsGreater(a, b) ==
    \/ a.day > b.day
    \/ a.day = b.day /\ a.sep = "T" /\ b.sep = " "

\* ---- ApifyClient._parse_apify_response ----------------------------------
NoneData == [is_none |-> TRUE, price_history |-> <<>>]

RECURSIVE ParseEntries(_)
ParseEntries(ph) ==
    IF ph = <<>> THEN <<>>
    ELSE LET e == Head(ph)
             rest == ParseEntries(Tail(ph))
         IN IF e.price = <<>>
            THEN rest
            ELSE <<[timestamp |-> DateToTs(e.date), price |-> e.price[1]]>> \o rest

\* as ParseApifyResponse, without the check for an empty list of prices
ParseApifyResponseUnchecked(ph) ==
    IF ph = <<>> THEN NoneData
    ELSE [is_none |-> FALSE, price_history |-> ParseEntries(ph)]

ParseApifyResponse(ph) ==
    IF ph = <<>> THEN NoneData
    ELSE LET parsed == ParseEntries(ph)
             prices == SelectSeq(parsed, LAMBDA q : q.price > 0)
         IN IF prices = <<>> THEN NoneData
            ELSE [is_none |-> FALSE, price_history |-> parsed]

\* ---- queries on the price_history table ---------------------------------
RowsOf(b, a) == {r \in BagToSet(b) : r.asin = a}

\* SELECT ... WHERE asin = ? AND timestamp > datetime('now', '-N days')
InWindow(b, a, d, t) ==
    [r \in {x \in RowsOf(b, a) : TsGreater(x.timestamp, NowTs(t - d))} |-> b[r]]

\* SELECT id ... WHERE asin = ? AND timestamp = ?
Exists(b, a, ts) == \E r \in RowsOf(b, a) : r.timestamp = ts

RECURSIVE SumBag(_)
SumBag(b) ==
    IF DOMAIN b = {} THEN 0
    ELSE LET r == CHOOSE x \in DOMAIN b : TRUE
         IN r.price * b[r] + SumBag([x \in DOMAIN b \ {r} |-> b[x]])

MinPrice(b) == CHOOSE m \in {r.price : r \in DOMAIN b} :
                   \A r \in DOMAIN b : m <= r.price

MaxPrice(b) == CHOOSE m \in {r.price : r \in DOMAIN b} :
                   \A r \in DOMAIN b : m >= r.price

\* rows that ORDER BY timestamp DESC may put first (ties are unordered)
Latest(b) == {r \in DOMAIN b : \A x \in DOMAIN b : ~TsGreater(x.timestamp, r.timestamp)}

Absent == [absent |-> TRUE]

\* the statistics record; avg_30d is avg_num / data_points
StatsRecord(b, cur, label) ==
    [absent |-> FALSE,
     current |-> cur,
     min_30d |-> MinPrice(b),
     max_30d |-> MaxPrice(b),
     avg_num |-> SumBag(b),
     is_lowest |-> cur = MinPrice(b),
     is_highest |-> cur = MaxPrice(b),
     data_points |-> BagCardinality(b),
     price_range |-> MaxPrice(b) - MinPrice(b),
     source |-> label]

SourceLabel(src) ==
    IF src = "apify_import" THEN "Apify (Historical)"
    ELSE IF src = "scraper_import" THEN "Bootstrapped (Scraper)"
    ELSE "Crowdsourced"

VARIABLES
    store,          \* committed rows of price_history (a bag)
    now,            \* the clock, in days
    writer,         \* connection holding SQLite's write lock, 0 if none
    pc, op,         \* per request: position and operation
    asin, days, use_keepa, country,     \* arguments of the call
    raw,            \* what the provider answered in this call
    history_data, idx, existing, pending, imported_count, source,
    result,         \* what get_price_stats returned
    ret,            \* what import_price_history_to_db returned
    apify_calls,    \* provider invocations during this call
    cnt1, cnt2,     \* len(history) of the first query and of the re-query
    hist1,          \* rows the first query returned
    inserted,       \* rows this call inserted, committed or not
    second,         \* this import repeats the import the call before made
    judge,          \* per request: which assessment was asked for
    cur_price,      \* the current_price argument of the assessment
    rec,            \* what get_buy_recommendation returned
    fake,           \* what detect_fake_discount returned
    seen,           \* the table as the assessment read it
    status,         \* status field of the price-intelligence response
    elapsed,        \* per request: seconds waited for the actor run
    polls,          \* status requests made for the run
    last_status,    \* what the last status request answered
    runs,           \* requests this call sent to start an actor run
    had_import,     \* a get_price_stats call has imported history for "A"
    tracked,        \* rows of tracked_products, by asin
    db_error        \* per request: a database exception was caught

vars == <<store, now, writer, pc, op, asin, days, use_keepa, country, raw,
          history_data, idx, existing, pending, imported_count, source,
          result, ret, apify_calls, cnt1, cnt2, hist1, inserted, second,
          judge, cur_price, rec, fake, seen, status,
          elapsed, polls, last_status, runs, had_import, tracked, db_error>>

callvars == <<op, asin, days, use_keepa, country>>
importvars == <<raw, history_data, idx, existing, pending, imported_count,
                source, ret, apify_calls, inserted, second>>
statvars == <<result, cnt1, cnt2, hist1>>
judgevars == <<judge, cur_price, rec, fake, seen, status>>
apifyvars == <<elapsed, polls, last_status, runs, had_import>>
regvars == <<tracked, db_error>>

\* no row of tracked_products for the asin
NoProduct == [present |-> FALSE]

NoRaw == [status |-> "none", items |-> <<>>]
FailRaw == [status |-> "fail", items |-> <<>>]
OkRaw(items) == [status |-> "ok", items |-> items]

NoVerdict == [action |-> "none"]
NoAnalysis == [verified |-> FALSE, is_fake |-> FALSE, kind |-> "none"]

\* no request in progress
NoCalls ==
    /\ writer = 0
    /\ pc = [p \in Procs |-> "idle"]
    /\ op = [p \in Procs |-> "none"]
    /\ asin = [p \in Procs |-> "A"]
    /\ days = [p \in Procs |-> 30]
    /\ use_keepa = [p \in Procs |-> TRUE]
    /\ country = [p \in Procs |-> "IN"]
    /\ raw = [p \in Procs |-> NoRaw]
    /\ history_data = [p \in Procs |-> NoneData]
    /\ idx = [p \in Procs |-> 0]
    /\ existing = [p \in Procs |-> FALSE]
    /\ pending = [p \in Procs |-> EmptyBag]
    /\ imported_count = [p \in Procs |-> 0]
    /\ source = [p \in Procs |-> "none"]
    /\ result = [p \in Procs |-> Absent]
    /\ ret = [p \in Procs |-> FALSE]
    /\ apify_calls = [p \in Procs |-> 0]
    /\ cnt1 = [p \in Procs |-> 0]
    /\ cnt2 = [p \in Procs |-> 0]
    /\ hist1 = [p \in Procs |-> EmptyBag]
    /\ inserted = [p \in Procs |-> EmptyBag]
    /\ second = [p \in Procs |-> FALSE]
    /\ judge = [p \in Procs |-> "none"]
    /\ cur_price = [p \in Procs |-> 0]
    /\ rec = [p \in Procs |-> NoVerdict]
    /\ fake = [p \in Procs |-> NoAnalysis]
    /\ seen = [p \in Procs |-> EmptyBag]
    /\ status = [p \in Procs |-> "none"]
    /\ elapsed = [p \in Procs |-> 0]
    /\ polls = [p \in Procs |-> 0]
    /\ last_status = [p \in Procs |-> "none"]
    /\ runs = [p \in Procs |-> 0]
    /\ db_error = [p \in Procs |-> FALSE]

Init ==
    /\ store = EmptyBag
    /\ now = 0
    /\ had_import = FALSE
    /\ tracked = [a \in Asins |-> NoProduct]
    /\ NoCalls

\* ---- the clock ----------------------------------------------------------
Tick ==
    /\ now < MaxNow
    /\ now' = now + 1
    /\ UNCHANGED <<store, writer, pc, callvars, importvars, statvars,
                   judgevars, apifyvars, regvars>>

\* ---- PriceTracker.track_price -------------------------------------------
TrackRow(a, price, currency, src, t) ==
    [asin |-> a, price |-> price, currency |-> currency,
     timestamp |-> NowTs(t), source |-> src]

\* products that are not requested are visited once
TrackPrice(a, price) ==
    /\ BagCardinality(store) < MaxRows
    /\ a \in Requested \/ RowsOf(store, a) = {}
    /\ writer = 0
    /\ store' = store (+) SetToBag({TrackRow(a, price, "INR", "extension", now)})
    /\ UNCHANGED <<now, writer, pc, callvars, importvars, statvars,
                   judgevars, apifyvars, regvars>>


\* ---- the provider call of import_price_history_to_db --------------------
ApifyEligibleAny(c) == TRUE

ApifyEligibleInverted(c) == Upper(c) # "US"

\* line 66: country.upper() == "US"
ApifyEligible(c) == Upper(c) = "US"

\* what get_apify_price_history may be answered; NoRaw when it is not called
Answers(c) ==
    IF ApifyEligible(c)
    THEN {FailRaw} \cup {OkRaw(items) : items \in Responses}
    ELSE {NoRaw}

\* as HistoryFrom, but a failed fetch is replaced by made-up points
HistoryFromFake(r) ==
    IF r.status = "ok" THEN ParseApifyResponse(r.items)
    ELSE [is_none |-> FALSE,
          price_history |-> <<[timestamp |-> DateToTs(0), price |-> 15]>>]

\* get_apify_price_history: None on any failure, else the parsed response
HistoryFrom(r) ==
    IF r.status = "ok" THEN ParseApifyResponse(r.items) ELSE NoneData

\* lines 69-71: source is set when the history has points
SourceOf(hd) ==
    IF ~hd.is_none /\ hd.price_history # <<>> THEN "apify_import" ELSE "none"

\* ---- the import loop ----------------------------------------------------
ShouldInsertNoDedup(ex, price) == price > 0

ShouldInsertAnyPrice(ex, price) == ~ex

\* line 96: not existing and price_point.get("price", 0) > 0
ShouldInsert(ex, price) == ~ex /\ price > 0

ImportRowOf(a, c, src, pt) ==
    [asin |-> a, price |-> pt.price,
     currency |-> IF c = "IN" THEN "INR" ELSE "USD",
     timestamp |-> pt.timestamp, source |-> src]

\* the rows the loop has inserted, uncommitted, after the first k points; the
\* connection sees the committed rows b and its own inserts
RECURSIVE ImportPoints(_, _, _, _, _, _)
ImportPoints(b, a, c, src, ph, k) ==
    IF k = 0 THEN EmptyBag
    ELSE LET pend == ImportPoints(b, a, c, src, ph, k - 1)
             pt == ph[k]
             ex == Exists(b (+) pend, a, pt.timestamp)
         IN IF ShouldInsert(ex, pt.price)
            THEN pend (+) SetToBag({ImportRowOf(a, c, src, pt)})
            ELSE pend

RollbackKeeps(b, pend) == b (+) pend

\* closing a connection (finally: conn.close()) rolls its open transaction back
Rollback(b, pend) == b

\* where a storage error may end the import: after k points (the SELECT or
\* INSERT of the next point, or the commit when k is the last point) or never
FailurePoints(r) ==
    LET hd == HistoryFrom(r)
    IN IF hd.is_none THEN {[fails |-> FALSE, after |-> 0]}
       ELSE {[fails |-> FALSE, after |-> Len(hd.price_history)]}
            \cup {[fails |-> TRUE, after |-> k] : k \in 0..Len(hd.price_history)}

\* import_price_history_to_db as a whole, on the committed rows b, with the
\* provider answer r and the storage error f
ImportOutcome(b, a, c, r, f) ==
    LET hd == HistoryFrom(r)
        rows == IF hd.is_none THEN EmptyBag
                ELSE ImportPoints(b, a, c, SourceOf(hd), hd.price_history, f.after)
    IN [hd |-> hd,
        inserted |-> rows,
        raised |-> ~hd.is_none /\ f.fails,
        ret |-> ~hd.is_none /\ ~f.fails,
        store |-> IF hd.is_none THEN b
                  ELSE IF f.fails THEN Rollback(b, rows)
                  ELSE b (+) rows]

\* ---- PriceTracker.get_price_stats ----------------------------------------
HasEnoughLocalStrict(n) == n > MIN_SAMPLES

\* line 147
HasEnoughLocal(n) == n >= MIN_SAMPLES

EnoughAfterImportOne(n) == n >= 1

\* line 185
EnoughAfterImport(n) == n >= MIN_AFTER_IMPORT

\* the statistics the first query may return (ties of ORDER BY are unordered)
LocalStats(history) ==
    {StatsRecord(history, r.price, "Local Database") : r \in Latest(history)}

\* the statistics the re-query may return; LIMIT 1 picks any row of the asin
ImportedStats(b, a, history) ==
    {StatsRecord(history, r.price, SourceLabel(s.source)) :
        r \in Latest(history), s \in RowsOf(b, a)}

SetCall(p, o, a, d, uk, c) ==
    /\ op' = [op EXCEPT ![p] = o]
    /\ asin' = [asin EXCEPT ![p] = a]
    /\ days' = [days EXCEPT ![p] = d]
    /\ use_keepa' = [use_keepa EXCEPT ![p] = uk]
    /\ country' = [country EXCEPT ![p] = c]

NoImport(p) ==
    /\ raw' = [raw EXCEPT ![p] = NoRaw]
    /\ history_data' = [history_data EXCEPT ![p] = NoneData]
    /\ source' = [source EXCEPT ![p] = "none"]
    /\ imported_count' = [imported_count EXCEPT ![p] = 0]
    /\ ret' = [ret EXCEPT ![p] = FALSE]
    /\ apify_calls' = [apify_calls EXCEPT ![p] = 0]
    /\ inserted' = [inserted EXCEPT ![p] = EmptyBag]

SetImport(p, c, r, o) ==
    /\ raw' = [raw EXCEPT ![p] = r]
    /\ history_data' = [history_data EXCEPT ![p] = o.hd]
    /\ source' = [source EXCEPT ![p] = SourceOf(o.hd)]
    /\ imported_count' = [imported_count EXCEPT ![p] = BagCardinality(o.inserted)]
    /\ ret' = [ret EXCEPT ![p] = o.ret]
    /\ apify_calls' = [apify_calls EXCEPT ![p] = IF ApifyEligible(c) THEN 1 ELSE 0]
    /\ inserted' = [inserted EXCEPT ![p] = o.inserted]

\* the call from its first query to its return or its exception
\* lines 172-223: the import with the provider's answer r, then the re-query
AfterProvider(p, a, d, c, r) ==
    \E f \in FailurePoints(r) :
        LET o == ImportOutcome(store, a, c, r, f)
            again == InWindow(o.store, a, d, now)
            m == BagCardinality(again)
        IN /\ SetImport(p, c, r, o)
           /\ store' = o.store
           /\ IF o.raised
              THEN /\ pc' = [pc EXCEPT ![p] = "raised"]
                   /\ result' = [result EXCEPT ![p] = Absent]
                   /\ cnt2' = [cnt2 EXCEPT ![p] = 0]
              ELSE IF ~o.ret
              THEN /\ pc' = [pc EXCEPT ![p] = "done"]
                   /\ result' = [result EXCEPT ![p] = Absent]
                   /\ cnt2' = [cnt2 EXCEPT ![p] = 0]
              ELSE /\ cnt2' = [cnt2 EXCEPT ![p] = m]
                   /\ \/ /\ pc' = [pc EXCEPT ![p] = "done"]
                         /\ IF EnoughAfterImport(m)
                            THEN \E st \in ImportedStats(o.store, a, again) :
                                     result' = [result EXCEPT ![p] = st]
                            ELSE result' = [result EXCEPT ![p] = Absent]
                      \/ /\ pc' = [pc EXCEPT ![p] = "raised"]
                         /\ result' = [result EXCEPT ![p] = Absent]

GetPriceStats(p, a, d, uk, c) ==
    /\ pc[p] = "idle"
    /\ SetCall(p, "stats", a, d, uk, c)
    /\ second' = [second EXCEPT ![p] = FALSE]
    /\ LET history == InWindow(store, a, d, now)
           n == BagCardinality(history)
       IN /\ cnt1' = [cnt1 EXCEPT ![p] = n]
          /\ hist1' = [hist1 EXCEPT ![p] = history]
          /\ IF HasEnoughLocal(n)
             THEN /\ \E st \in LocalStats(history) :
                        result' = [result EXCEPT ![p] = st]
                  /\ pc' = [pc EXCEPT ![p] = "done"]
                  /\ cnt2' = [cnt2 EXCEPT ![p] = 0]
                  /\ NoImport(p)
                  /\ store' = store
             ELSE IF ~uk
             THEN /\ result' = [result EXCEPT ![p] = Absent]
                  /\ pc' = [pc EXCEPT ![p] = "done"]
                  /\ cnt2' = [cnt2 EXCEPT ![p] = 0]
                  /\ NoImport(p)
                  /\ store' = store
             ELSE \E r \in Answers(c) : AfterProvider(p, a, d, c, r)
    /\ UNCHANGED <<now, writer, idx, existing, pending>>

\* ---- PriceTracker.import_price_history_to_db, called directly -----------
ImportWith(p, a, c, r) ==
    \E f \in FailurePoints(r) :
        LET o == ImportOutcome(store, a, c, r, f)
        IN /\ SetImport(p, c, r, o)
           /\ store' = o.store
           /\ pc' = [pc EXCEPT ![p] = IF o.raised THEN "raised" ELSE "done"]

ImportHistory(p, a, c, r) ==
    /\ pc[p] = "idle"
    /\ SetCall(p, "import", a, days[p], use_keepa[p], c)
    /\ second' = [second EXCEPT ![p] = FALSE]
    /\ ImportWith(p, a, c, r)
    /\ UNCHANGED <<now, writer, idx, existing, pending, statvars,
                   judgevars, apifyvars, regvars>>

ImportPriceHistoryToDb(p, a, c) ==
    \E r \in Answers(c) : ImportHistory(p, a, c, r)

\* the same import once more, the provider returning the same history
ImportAgain(p) ==
    /\ pc[p] = "done"
    /\ op[p] = "import"
    /\ ret[p]
    /\ ~second[p]
    /\ second' = [second EXCEPT ![p] = TRUE]
    /\ ImportWith(p, asin[p], country[p], raw[p])
    /\ UNCHANGED <<now, writer, callvars, idx, existing, pending, statvars,
                   judgevars, apifyvars, regvars>>

\* the caller takes the outcome; the request slot is free again
Return(p) ==
    /\ pc[p] \in {"done", "raised"}
    /\ pc' = [pc EXCEPT ![p] = "idle"]
    /\ SetCall(p, "none", "A", 30, TRUE, "IN")
    /\ NoImport(p)
    /\ second' = [second EXCEPT ![p] = FALSE]
    /\ idx' = [idx EXCEPT ![p] = 0]
    /\ existing' = [existing EXCEPT ![p] = FALSE]
    /\ pending' = [pending EXCEPT ![p] = EmptyBag]
    /\ result' = [result EXCEPT ![p] = Absent]
    /\ cnt1' = [cnt1 EXCEPT ![p] = 0]
    /\ cnt2' = [cnt2 EXCEPT ![p] = 0]
    /\ hist1' = [hist1 EXCEPT ![p] = EmptyBag]
    /\ judge' = [judge EXCEPT ![p] = "none"]
    /\ cur_price' = [cur_price EXCEPT ![p] = 0]
    /\ rec' = [rec EXCEPT ![p] = NoVerdict]
    /\ fake' = [fake EXCEPT ![p] = NoAnalysis]
    /\ seen' = [seen EXCEPT ![p] = EmptyBag]
    /\ status' = [status EXCEPT ![p] = "none"]
    /\ elapsed' = [elapsed EXCEPT ![p] = 0]
    /\ polls' = [polls EXCEPT ![p] = 0]
    /\ last_status' = [last_status EXCEPT ![p] = "none"]
    /\ runs' = [runs EXCEPT ![p] = 0]
    /\ db_error' = [db_error EXCEPT ![p] = FALSE]
    /\ UNCHANGED <<store, now, writer, had_import, tracked>>

\* ---- the import statement by statement, for interleaved connections ------
BeginImport(p, a, c) ==
    /\ pc[p] = "idle"
    /\ SetCall(p, "import", a, days[p], use_keepa[p], c)
    /\ pc' = [pc EXCEPT ![p] = "fetch"]
    /\ UNCHANGED <<store, now, writer, importvars, statvars,
                   judgevars, apifyvars, regvars>>

\* lines 62-84: the provider is tried for US only; no data ends the import
Fetch(p) ==
    /\ pc[p] = "fetch"
    /\ \E r \in Answers(country[p]) :
           LET hd == HistoryFrom(r)
           IN /\ raw' = [raw EXCEPT ![p] = r]
              /\ history_data' = [history_data EXCEPT ![p] = hd]
              /\ source' = [source EXCEPT ![p] = SourceOf(hd)]
              /\ IF hd.is_none
                 THEN /\ pc' = [pc EXCEPT ![p] = "done"]
                      /\ idx' = idx
                 ELSE /\ pc' = [pc EXCEPT ![p] =
                                  IF hd.price_history = <<>> THEN "commit" ELSE "check"]
                      /\ idx' = [idx EXCEPT ![p] = 1]
    /\ apify_calls' = [apify_calls EXCEPT ![p] =
                         IF ApifyEligible(country[p]) THEN 1 ELSE 0]
    /\ UNCHANGED <<store, now, writer, callvars, existing, pending,
                   imported_count, ret, inserted, second, statvars,
                   judgevars, apifyvars, regvars>>

NextPc(p) == IF idx[p] < Len(history_data[p].price_history) THEN "check" ELSE "commit"

\* lines 91-96: look the timestamp up, on this connection
CheckExisting(p) ==
    /\ pc[p] = "check"
    /\ LET pt == history_data[p].price_history[idx[p]]
           ex == Exists(store (+) pending[p], asin[p], pt.timestamp)
       IN /\ existing' = [existing EXCEPT ![p] = ex]
          /\ IF ShouldInsert(ex, pt.price)
             THEN /\ pc' = [pc EXCEPT ![p] = "insert"]
                  /\ idx' = idx
             ELSE /\ pc' = [pc EXCEPT ![p] = NextPc(p)]
                  /\ idx' = [idx EXCEPT ![p] = @ + 1]
    /\ UNCHANGED <<store, now, writer, callvars, raw, history_data, pending,
                   imported_count, source, ret, apify_calls, inserted, second,
                   statvars,
                   judgevars, apifyvars, regvars>>

ImportRow(p) ==
    ImportRowOf(asin[p], country[p], source[p],
                history_data[p].price_history[idx[p]])

\* lines 97-107: the INSERT takes SQLite's write lock until commit or close
InsertPoint(p) ==
    /\ pc[p] = "insert"
    /\ writer \in {0, p}
    /\ writer' = p
    /\ pending' = [pending EXCEPT ![p] = @ (+) SetToBag({ImportRow(p)})]
    /\ inserted' = [inserted EXCEPT ![p] = @ (+) SetToBag({ImportRow(p)})]
    /\ imported_count' = [imported_count EXCEPT ![p] = @ + 1]
    /\ pc' = [pc EXCEPT ![p] = NextPc(p)]
    /\ idx' = [idx EXCEPT ![p] = @ + 1]
    /\ UNCHANGED <<store, now, callvars, raw, history_data, existing, source,
                   ret, apify_calls, second, statvars,
                   judgevars, apifyvars, regvars>>

\* lines 109-113: conn.commit(), return True
Commit(p) ==
    /\ pc[p] = "commit"
    /\ store' = store (+) pending[p]
    /\ pending' = [pending EXCEPT ![p] = EmptyBag]
    /\ writer' = IF writer = p THEN 0 ELSE writer
    /\ ret' = [ret EXCEPT ![p] = TRUE]
    /\ idx' = [idx EXCEPT ![p] = 0]
    /\ existing' = [existing EXCEPT ![p] = FALSE]
    /\ pc' = [pc EXCEPT ![p] = "done"]
    /\ UNCHANGED <<now, callvars, raw, history_data, imported_count, source,
                   apify_calls, inserted, second, statvars,
                   judgevars, apifyvars, regvars>>

\* a storage error, or the lock wait timing out: the exception leaves through
\* finally: conn.close()
StorageFail(p) ==
    /\ pc[p] \in {"check", "insert", "commit"}
    /\ store' = Rollback(store, pending[p])
    /\ pending' = [pending EXCEPT ![p] = EmptyBag]
    /\ writer' = IF writer = p THEN 0 ELSE writer
    /\ pc' = [pc EXCEPT ![p] = "raised"]
    /\ idx' = [idx EXCEPT ![p] = 0]
    /\ existing' = [existing EXCEPT ![p] = FALSE]
    /\ UNCHANGED <<now, callvars, raw, history_data, imported_count, source,
                   ret, apify_calls, inserted, second, statvars,
                   judgevars, apifyvars, regvars>>

\* ---- specifications -----------------------------------------------------
AllIdle == \A p \in Procs : pc[p] = "idle"

\* one operation at a time: visits, statistics requests and imports in sequence
Next ==
    \/ AllIdle /\ Tick
    \/ AllIdle /\ \E a \in Asins : TrackPrice(a, PriceOn(now))
    \/ \E a \in Requested, d \in DaysSet, uk \in BOOLEAN, c \in StatsCountries :
           GetPriceStats(1, a, d, uk, c)
              /\ UNCHANGED <<judgevars, apifyvars, regvars>>
    \/ \E a \in Requested, c \in Countries : ImportPriceHistoryToDb(1, a, c)
    \/ ImportAgain(1)
    \/ Return(1)

Spec == Init /\ [][Next]_vars

\* two imports, each on its own connection, interleaved
ImportStep(p) ==
    \/ \E a \in Requested, c \in Countries : BeginImport(p, a, c)
    \/ Fetch(p)
    \/ CheckExisting(p)
    \/ InsertPoint(p)
    \/ Commit(p)
    \/ StorageFail(p)
    \/ Return(p)

NextConc == \E p \in Procs : ImportStep(p)

SpecConc == Init /\ [][NextConc]_vars

\* ---- the deal and discount judge (archive/price_tracker.py) --------------
\* Comparisons with the average are made on avg_num / data_points, cleared of
\* the division: x <= avg * 0.95 is x * n * 100 <= avg_num * 95.
MaxObs == 4

\* prices of the observations a table starts with
JudgePrices == {100, 101, 200}
\* the current_price arguments
CurrentPrices == {100, 101, 140, 141, 175, 195}
\* the prices sent to the price-intelligence endpoint
IntelPrices == {100, 195}

\* tables of the verdict tests: (min, max, avg) = (100, 200, 150),
\* (100, 200, 130), the six visits of the end-to-end scenario, and a latest
\* visit 1% above the minimum
VerdictTablePrices == <<100, 200, 150, 150, 150>>
InflatedPrices == <<100, 200, 100, 100, 150>>
ScenarioPrices == <<110, 120, 100, 115, 105, 100>>
NearMinPrices == <<100, 100, 100, 100, 101>>

Histories ==
    SeqsUpTo(JudgePrices, MaxObs)
        \cup {VerdictTablePrices, InflatedPrices, ScenarioPrices, NearMinPrices}

\* one visit a day, the last one today
StoreOf(a, h) ==
    SetToBag({TrackRow(a, h[i], "INR", "extension", i) : i \in 1..Len(h)})

\* confidence is in percent, as the code returns it
TrackVerdictUnknown == [action |-> "unknown", confidence |-> 0, color |-> "gray"]

\* lines 300-306
TrackVerdict == [action |-> "track", confidence |-> 50, color |-> "gray"]

BuyNowRuleStrict(stats, cp) == cp < stats.min_30d

\* line 309
BuyNowRule(stats, cp) == cp <= stats.min_30d

\* line 319: current_price <= avg * 0.95
GoodDealRule(stats, cp) == cp * stats.data_points * 100 <= stats.avg_num * 95

\* line 329: current_price >= avg * 1.15
AboveAverageRule(stats, cp) == cp * stats.data_points * 100 >= stats.avg_num * 115

\* line 341: current_price >= max * 0.95
NearPeakRule(stats, cp) == cp * 100 >= stats.max_30d * 95

\* PriceTracker.get_buy_recommendation, on the statistics it was given
BuyRecommendation(stats, cp) ==
    IF stats.absent THEN TrackVerdict
    ELSE IF BuyNowRule(stats, cp)
    THEN [action |-> "buy_now", confidence |-> 95, color |-> "green"]
    ELSE IF GoodDealRule(stats, cp)
    THEN [action |-> "good_deal", confidence |-> 80, color |-> "green"]
    ELSE IF AboveAverageRule(stats, cp)
    THEN [action |-> "wait", confidence |-> 85, color |-> "orange"]
    ELSE IF NearPeakRule(stats, cp)
    THEN [action |-> "wait", confidence |-> 90, color |-> "red"]
    ELSE [action |-> "neutral", confidence |-> 65, color |-> "yellow"]

InflatedRuleTenPercent(stats) ==
    stats.max_30d * stats.data_points * 100 > stats.avg_num * 110

\* line 248: max > avg * 1.15
InflatedRule(stats) ==
    stats.max_30d * stats.data_points * 100 > stats.avg_num * 115

\* PriceTracker.detect_fake_discount, on the statistics it was given
FakeDiscount(stats, cp) ==
    IF stats.absent
    THEN [verified |-> FALSE, is_fake |-> FALSE, kind |-> "unverified"]
    ELSE IF InflatedRule(stats)
    THEN [verified |-> TRUE, is_fake |-> TRUE, kind |-> "inflated"]
    ELSE IF cp <= stats.min_30d
    THEN [verified |-> TRUE, is_fake |-> FALSE, kind |-> "is_best_price"]
    ELSE IF GoodDealRule(stats, cp)
    THEN [verified |-> TRUE, is_fake |-> FALSE, kind |-> "is_good_deal"]
    ELSE [verified |-> TRUE, is_fake |-> FALSE, kind |-> "is_average"]

\* both operations call get_price_stats(asin): 30 days, import flag set,
\* market "IN"
Assess(p, a, cp, kind) ==
    /\ GetPriceStats(p, a, 30, TRUE, "IN")
    /\ judge' = [judge EXCEPT ![p] = kind]
    /\ cur_price' = [cur_price EXCEPT ![p] = cp]
    /\ seen' = [seen EXCEPT ![p] = store]
    /\ status' = status
    /\ UNCHANGED <<apifyvars, regvars>>

GetBuyRecommendation(p, a, cp) ==
    /\ Assess(p, a, cp, "buy")
    /\ rec' = [rec EXCEPT ![p] =
                 IF pc'[p] = "done" THEN BuyRecommendation(result'[p], cp)
                 ELSE NoVerdict]
    /\ fake' = fake

DetectFakeDiscount(p, a, cp) ==
    /\ Assess(p, a, cp, "fake")
    /\ fake' = [fake EXCEPT ![p] =
                  IF pc'[p] = "done" THEN FakeDiscount(result'[p], cp)
                  ELSE NoAnalysis]
    /\ rec' = rec

\* ---- PriceTracker of price_tracker.py (the tracker the endpoint uses) ----
\* WHERE asin = %s AND timestamp > NOW() - INTERVAL '%s days'
InWindowCurrent(b, a, d, t) ==
    [r \in {x \in RowsOf(b, a) : x.timestamp.day > t - d} |-> b[r]]

\* lines 104-128, with the latest row of the product
StatsRecordCurrentLoose(w, latest) ==
    [absent |-> FALSE,
     current |-> latest.price,
     min_30d |-> MinPrice(w),
     max_30d |-> MaxPrice(w),
     avg_num |-> SumBag(w),
     is_lowest |-> latest.price * 100 <= MinPrice(w) * 200,
     is_highest |-> latest.price * 100 >= MaxPrice(w) * 50,
     data_points |-> BagCardinality(w),
     price_range |-> MaxPrice(w) - MinPrice(w),
     source |-> latest.source]

StatsRecordCurrent(w, latest) ==
    [absent |-> FALSE,
     current |-> latest.price,
     min_30d |-> MinPrice(w),
     max_30d |-> MaxPrice(w),
     avg_num |-> SumBag(w),
     is_lowest |-> latest.price <= MinPrice(w),
     is_highest |-> latest.price >= MaxPrice(w),
     data_points |-> BagCardinality(w),
     price_range |-> MaxPrice(w) - MinPrice(w),
     source |-> latest.source]

\* get_price_stats: None without rows in the window, and on any exception
GetPriceStatsCurrent(b, a, d, t) ==
    LET w == InWindowCurrent(b, a, d, t)
        all == [r \in RowsOf(b, a) |-> b[r]]
    IN {Absent} \cup
       (IF BagCardinality(w) = 0 THEN {}
        ELSE {StatsRecordCurrent(w, r) : r \in Latest(all)})

\* detect_fake_discount: current_price > avg * 1.10
FakeDiscountCurrent(stats, cp) ==
    IF stats.absent THEN [is_fake |-> FALSE, reason |-> "insufficient"]
    ELSE IF cp * stats.data_points * 10 > stats.avg_num * 11
    THEN [is_fake |-> TRUE, reason |-> "above_average"]
    ELSE [is_fake |-> FALSE, reason |-> "consistent"]

\* get_buy_recommendation returns the verdict alone
BuyRecommendationCurrent(stats, cp) ==
    IF stats.absent THEN [action |-> "UNKNOWN"]
    ELSE IF cp * 100 <= stats.min_30d * 101 THEN [action |-> "BUY_NOW"]
    ELSE IF cp * stats.data_points < stats.avg_num THEN [action |-> "GOOD_DEAL"]
    ELSE IF cp * stats.data_points * 10 > stats.avg_num * 11 THEN [action |-> "WAIT"]
    ELSE [action |-> "FAIR_PRICE"]

AssessCurrent(p, a, cp, kind) ==
    /\ pc[p] = "idle"
    /\ pc' = [pc EXCEPT ![p] = "done"]
    /\ SetCall(p, "stats", a, 30, FALSE, "IN")
    /\ judge' = [judge EXCEPT ![p] = kind]
    /\ cur_price' = [cur_price EXCEPT ![p] = cp]
    /\ cnt1' = cnt1
    /\ cnt2' = cnt2
    /\ hist1' = hist1
    /\ UNCHANGED <<writer, importvars>>

DetectFakeDiscountCurrent(p, a, cp) ==
    /\ AssessCurrent(p, a, cp, "fake_current")
    /\ \E st \in GetPriceStatsCurrent(store, a, 30, now) :
           /\ result' = [result EXCEPT ![p] = st]
           /\ fake' = [fake EXCEPT ![p] = FakeDiscountCurrent(st, cp)]
    /\ seen' = [seen EXCEPT ![p] = store]
    /\ UNCHANGED <<store, now, rec, status, apifyvars, regvars>>

\* track_price: both INSERTs and the commit, or nothing and False
TrackPriceCurrent(b, a, cp, t, ok) ==
    IF ok THEN b (+) SetToBag({TrackRow(a, cp, "INR", "extension", t)}) ELSE b

\* ---- price_intelligence of main_electronics.py ---------------------------
\* The visit is stamped with the next day, so that visits are ordered as
\* they were made.  The three get_price_stats calls of a request read the
\* same table; each may end in an exception, which the tracker turns into None.
PriceIntelligence(p, a, cp) ==
    /\ BagCardinality(store) < MaxRows
    /\ AssessCurrent(p, a, cp, "intelligence")
    /\ \E ok \in BOOLEAN :
         LET table == TrackPriceCurrent(store, a, cp, now + 1, ok)
             t == IF ok THEN now + 1 ELSE now
         IN /\ store' = table
            /\ now' = t
            /\ seen' = [seen EXCEPT ![p] = table]
            /\ UNCHANGED <<apifyvars, tracked>>
            /\ \E st \in GetPriceStatsCurrent(table, a, 30, t) :
                 /\ result' = [result EXCEPT ![p] = st]
                 /\ db_error' = [db_error EXCEPT ![p] =
                        ~ok \/ (st.absent /\ InWindowCurrent(table, a, 30, t) # EmptyBag)]
                 /\ IF st.absent
                    THEN /\ status' = [status EXCEPT ![p] = "tracking_started"]
                         /\ fake' = fake
                         /\ rec' = rec
                    ELSE /\ status' = [status EXCEPT ![p] = "success"]
                         /\ \E s2 \in GetPriceStatsCurrent(table, a, 30, t) :
                              fake' = [fake EXCEPT ![p] = FakeDiscountCurrent(s2, cp)]
                         /\ \E s3 \in GetPriceStatsCurrent(table, a, 30, t) :
                              rec' = [rec EXCEPT ![p] = BuyRecommendationCurrent(s3, cp)]

\* ---- assessments on a table of observations ------------------------------
InitJudge ==
    /\ \E h \in Histories :
           /\ store = StoreOf("A", h)
           /\ now = Len(h)
    /\ had_import = FALSE
    /\ tracked = [a \in Asins |-> NoProduct]
    /\ NoCalls

NextJudge ==
    \/ \E a \in Requested, cp \in CurrentPrices : GetBuyRecommendation(1, a, cp)
    \/ \E a \in Requested, cp \in CurrentPrices : DetectFakeDiscount(1, a, cp)
    \/ \E a \in Requested, cp \in CurrentPrices : DetectFakeDiscountCurrent(1, a, cp)
    \/ \E a \in Requested, cp \in IntelPrices : DetectFakeDiscountCurrent(2, a, cp)
    \/ \E a \in Requested, cp \in IntelPrices : PriceIntelligence(1, a, cp)
    \/ \E p \in Procs : Return(p)

SpecJudge == InitJudge /\ [][NextJudge]_vars

\* ---- ApifyClient.get_price_history, request by request -------------------
\* lines 112-113
MAX_WAIT == 60
WAIT_INTERVAL == 3

\* the answers to the request that starts the actor run (lines 81-105)
PostReplies == {"402", "429", "http_error", "timeout", "no_run_id", "started"}
\* the answers to a status request (lines 116-129)
StatusReplies == {"RUNNING", "SUCCEEDED", "FAILED", "ABORTED", "TIMED-OUT",
                  "http_error", "timeout"}
TerminalFailures == {"FAILED", "ABORTED", "TIMED-OUT"}
\* the ways the dataset request ends without a history (lines 139-156, 185)
DatasetFailures == {"no_dataset", "http_error", "empty", "unparsable"}

PollAgainInclusive(e) == e <= MAX_WAIT

\* line 115: while elapsed < max_wait
PollAgain(e) == e < MAX_WAIT

ProviderFailedRaises(p, reply) ==
    /\ raw' = [raw EXCEPT ![p] = FailRaw]
    /\ last_status' = [last_status EXCEPT ![p] = reply]
    /\ pc' = [pc EXCEPT ![p] = "raised"]

\* every failure of get_price_history returns None (lines 89-105, 127-129,
\* 134-143, 154-156, 172-187), and so does get_apify_price_history
ProviderFailed(p, reply) ==
    /\ raw' = [raw EXCEPT ![p] = FailRaw]
    /\ last_status' = [last_status EXCEPT ![p] = reply]
    /\ pc' = [pc EXCEPT ![p] = "answered"]

\* get_price_stats up to the provider: the first query, then
\* import_price_history_to_db up to get_apify_price_history; without a token
\* the client returns None before any request
BeginStats(p, a, uk, c, token) ==
    /\ pc[p] = "idle"
    /\ SetCall(p, "stats", a, 30, uk, c)
    /\ LET history == InWindow(store, a, 30, now)
           n == BagCardinality(history)
       IN /\ cnt1' = [cnt1 EXCEPT ![p] = n]
          /\ hist1' = [hist1 EXCEPT ![p] = history]
          /\ IF HasEnoughLocal(n)
             THEN /\ \E st \in LocalStats(history) :
                        result' = [result EXCEPT ![p] = st]
                  /\ pc' = [pc EXCEPT ![p] = "done"]
                  /\ UNCHANGED <<raw, apify_calls, last_status>>
             ELSE IF ~uk
             THEN /\ pc' = [pc EXCEPT ![p] = "done"]
                  /\ UNCHANGED <<result, raw, apify_calls, last_status>>
             ELSE IF ~ApifyEligible(c)
             THEN /\ pc' = [pc EXCEPT ![p] = "answered"]
                  /\ UNCHANGED <<result, raw, apify_calls, last_status>>
             ELSE /\ apify_calls' = [apify_calls EXCEPT ![p] = 1]
                  /\ result' = result
                  /\ IF token
                     THEN /\ pc' = [pc EXCEPT ![p] = "post"]
                          /\ UNCHANGED <<raw, last_status>>
                     ELSE ProviderFailed(p, "no_token")
    /\ UNCHANGED <<store, now, writer, history_data, idx, existing, pending,
                   imported_count, source, ret, inserted, second, cnt2,
                   judgevars, elapsed, polls, runs, had_import, regvars>>

StartAgain(reply) == reply \in {"429", "timeout"}

\* the request that starts the run is sent once: no answer leads back to it
StartOver(reply) == FALSE

\* lines 81-105: the run is started, or the call ends with None
PostRun(p) ==
    /\ pc[p] = "post"
    /\ runs' = [runs EXCEPT ![p] = runs[p] + 1]
    /\ \E reply \in PostReplies :
         IF reply = "started"
         THEN /\ last_status' = [last_status EXCEPT ![p] = reply]
              /\ pc' = [pc EXCEPT ![p] = "poll"]
              /\ raw' = raw
         ELSE IF StartOver(reply)
         THEN /\ last_status' = [last_status EXCEPT ![p] = reply]
              /\ UNCHANGED <<pc, raw>>
         ELSE ProviderFailed(p, reply)
    /\ UNCHANGED <<store, now, writer, callvars, history_data, idx, existing,
                   pending, imported_count, source, ret, apify_calls, inserted,
                   second, statvars, judgevars, elapsed, polls, had_import,
                   regvars>>

\* lines 115-132: one turn of the loop
PollStatus(p) ==
    /\ pc[p] = "poll"
    /\ PollAgain(elapsed[p])
    /\ polls' = [polls EXCEPT ![p] = polls[p] + 1]
    /\ \E reply \in StatusReplies :
         IF reply = "SUCCEEDED"
         THEN /\ last_status' = [last_status EXCEPT ![p] = reply]
              /\ pc' = [pc EXCEPT ![p] = "waited"]
              /\ UNCHANGED <<raw, elapsed>>
         ELSE IF reply = "RUNNING"
         THEN /\ last_status' = [last_status EXCEPT ![p] = reply]
              /\ elapsed' = [elapsed EXCEPT ![p] = elapsed[p] + WAIT_INTERVAL]
              /\ UNCHANGED <<raw, pc>>
         ELSE /\ ProviderFailed(p, reply)
              /\ elapsed' = elapsed
    /\ UNCHANGED <<store, now, writer, callvars, history_data, idx, existing,
                   pending, imported_count, source, ret, apify_calls, inserted,
                   second, statvars, judgevars, runs, had_import, regvars>>

\* lines 134-136: after the loop, by its condition or by break
AfterLoop(p) ==
    /\ \/ pc[p] = "waited"
       \/ pc[p] = "poll" /\ ~PollAgain(elapsed[p])
    /\ IF elapsed[p] >= MAX_WAIT
       THEN ProviderFailed(p, "deadline")
       ELSE /\ pc' = [pc EXCEPT ![p] = "dataset"]
            /\ UNCHANGED <<raw, last_status>>
    /\ UNCHANGED <<store, now, writer, callvars, history_data, idx, existing,
                   pending, imported_count, source, ret, apify_calls, inserted,
                   second, statvars, judgevars, elapsed, polls, runs,
                   had_import, regvars>>

\* lines 139-170: the dataset of the run and its parsing
FetchDataset(p) ==
    /\ pc[p] = "dataset"
    /\ \/ \E reply \in DatasetFailures : ProviderFailed(p, reply)
       \/ \E items \in Responses :
            /\ raw' = [raw EXCEPT ![p] = OkRaw(items)]
            /\ last_status' = [last_status EXCEPT ![p] = "items"]
            /\ pc' = [pc EXCEPT ![p] = "answered"]
    /\ UNCHANGED <<store, now, writer, callvars, history_data, idx, existing,
                   pending, imported_count, source, ret, apify_calls, inserted,
                   second, statvars, judgevars, elapsed, polls, runs,
                   had_import, regvars>>

\* the rest of import_price_history_to_db and of get_price_stats
FinishStats(p) ==
    /\ pc[p] = "answered"
    /\ AfterProvider(p, asin[p], days[p], country[p], raw[p])
    /\ had_import' = (had_import \/ ret'[p])
    /\ UNCHANGED <<now, writer, callvars, idx, existing, pending, second,
                   cnt1, hist1, judgevars, elapsed, polls, last_status, runs,
                   regvars>>

\* the tables a request may find: none, one visit, five visits
InitApify ==
    /\ \E h \in {<<>>, <<100>>, NearMinPrices} :
           /\ store = StoreOf("A", h)
           /\ now = Len(h)
    /\ had_import = FALSE
    /\ tracked = [a \in Asins |-> NoProduct]
    /\ NoCalls

NextApify ==
    \/ \E a \in Requested, uk \in BOOLEAN, c \in Countries, token \in BOOLEAN :
           BeginStats(1, a, uk, c, token)
    \/ PostRun(1)
    \/ PollStatus(1)
    \/ AfterLoop(1)
    \/ FetchDataset(1)
    \/ FinishStats(1)
    \/ Return(1)

SpecApify == InitApify /\ [][NextApify]_vars

\* ---- tracked_products and price_history together -------------------------
MaxStored == 3

\* product titles sent to /check-electronics, and a column left out of an INSERT
Titles == {"laptop", "phone", "novel"}
Null == "NULL"
Currencies == {"INR", "USD"}
\* current_price is any float: no bound is declared on the query parameter
EndpointPrices == {0, 100}
\* the prices of the assessment requests
AssessedPrices == {0, 105}
\* a scraped price is recorded when it is truthy
ScrapedPrices == {50}

\* detect_category: the key of the first category with a keyword in the title
DetectCategory(title) ==
    IF title = "laptop" THEN "laptops"
    ELSE IF title = "phone" THEN "smartphones"
    ELSE Null

\* the row an INSERT into tracked_products proposes; first_seen_at and, when
\* left out, last_updated_at default to CURRENT_TIMESTAMP
ProductRow(title, category, mkt, cur, t) ==
    [present |-> TRUE, title |-> title, category |-> category,
     marketplace |-> mkt, currency |-> cur, first_seen |-> t, last_updated |-> t]

\* product_title TEXT NOT NULL
NotNullOk(row) == row.title # Null

\* track_price's statement: the proposed row has no product_title, and a
\* proposed row is checked against NOT NULL before the conflict on asin is
\* looked at
UpsertOnTrack(reg, a, cur, mkt, t) ==
    LET row == ProductRow(Null, Null, mkt, cur, t)
    IN IF ~NotNullOk(row) THEN [ok |-> FALSE, reg |-> reg]
       ELSE IF reg[a].present
       THEN [ok |-> TRUE,
             reg |-> [reg EXCEPT ![a].last_updated = t, ![a].currency = cur]]
       ELSE [ok |-> TRUE, reg |-> [reg EXCEPT ![a] = row]]

\* the statement of /check-electronics
UpsertOnCheck(reg, a, title, category, mkt, cur, t) ==
    LET row == ProductRow(title, category, mkt, cur, t)
    IN IF ~NotNullOk(row) THEN [ok |-> FALSE, reg |-> reg]
       ELSE IF reg[a].present
       THEN [ok |-> TRUE,
             reg |-> [reg EXCEPT ![a].last_updated = t, ![a].title = title]]
       ELSE [ok |-> TRUE, reg |-> [reg EXCEPT ![a] = row]]

OverwriteRows(b, r) == SetToBag({r})

\* INSERT INTO price_history
AppendRow(b, r) == b (+) SetToBag({r})

\* /check-electronics: both statements and the commit; a title outside the
\* categories is answered without a write
CheckElectronics(a, title, cp, cur) ==
    /\ BagCardinality(store) < MaxStored
    /\ LET u == UpsertOnCheck(tracked, a, title, DetectCategory(title), "IN", cur, now)
       IN IF DetectCategory(title) # Null /\ u.ok
          THEN /\ tracked' = u.reg
               /\ store' = AppendRow(store, TrackRow(a, cp, cur, "extension", now))
          ELSE UNCHANGED <<tracked, store>>
    /\ UNCHANGED <<now, writer, pc, callvars, importvars, statvars, judgevars,
                   apifyvars, db_error>>

\* record_price for a product the scraper read from tracked_products: the
\* INSERT, the UPDATE of last_updated_at and the commit, or, when the
\* connection is lost before the commit, nothing
RecordPrice(a, price) ==
    /\ BagCardinality(store) < MaxStored
    /\ tracked[a].present
    /\ \E committed \in BOOLEAN :
         IF committed
         THEN /\ store' = AppendRow(store, TrackRow(a, price, tracked[a].currency,
                                                   "scraper", now))
              /\ tracked' = [tracked EXCEPT ![a].last_updated = now]
         ELSE UNCHANGED <<tracked, store>>
    /\ UNCHANGED <<now, writer, pc, callvars, importvars, statvars, judgevars,
                   apifyvars, db_error>>

\* price_intelligence, line 177: track_price.  The first statement raises on
\* NOT NULL, the connection block rolls back, the exception is caught and
\* False returned, which the endpoint does not read.
IntelTrack(p, a, cp) ==
    /\ pc[p] = "idle"
    /\ SetCall(p, "stats", a, 30, FALSE, "IN")
    /\ judge' = [judge EXCEPT ![p] = "intelligence"]
    /\ cur_price' = [cur_price EXCEPT ![p] = cp]
    /\ pc' = [pc EXCEPT ![p] = "tracked"]
    /\ LET u == UpsertOnTrack(tracked, a, "INR", "IN", now)
       IN IF u.ok /\ BagCardinality(store) < MaxStored
          THEN /\ tracked' = u.reg
               /\ store' = AppendRow(store, TrackRow(a, cp, "INR", "extension", now))
               /\ ret' = [ret EXCEPT ![p] = TRUE]
               /\ db_error' = db_error
          ELSE /\ ret' = [ret EXCEPT ![p] = FALSE]
               /\ db_error' = [db_error EXCEPT ![p] = TRUE]
               /\ UNCHANGED <<tracked, store>>
    /\ UNCHANGED <<now, writer, raw, history_data, idx, existing, pending,
                   imported_count, source, apify_calls, inserted, second,
                   statvars, rec, fake, seen, status, apifyvars>>

\* what a statistics query answers when the database is reachable
StatsNow(b, a, t) ==
    IF InWindowCurrent(b, a, 30, t) = EmptyBag THEN {Absent}
    ELSE GetPriceStatsCurrent(b, a, 30, t) \ {Absent}

\* lines 180-191: the statistics of the response
IntelStats(p) ==
    /\ pc[p] = "tracked"
    /\ \E st \in StatsNow(store, asin[p], now) :
         /\ result' = [result EXCEPT ![p] = st]
         /\ IF st.absent
            THEN /\ status' = [status EXCEPT ![p] = "tracking_started"]
                 /\ pc' = [pc EXCEPT ![p] = "done"]
            ELSE /\ status' = status
                 /\ pc' = [pc EXCEPT ![p] = "stats"]
    /\ UNCHANGED <<store, now, writer, callvars, importvars, cnt1, cnt2, hist1,
                   judge, cur_price, rec, fake, seen, apifyvars, regvars>>

\* line 194: detect_fake_discount queries the statistics again
IntelFake(p) ==
    /\ pc[p] = "stats"
    /\ \E st \in StatsNow(store, asin[p], now) :
         fake' = [fake EXCEPT ![p] = FakeDiscountCurrent(st, cur_price[p])]
    /\ pc' = [pc EXCEPT ![p] = "fake"]
    /\ UNCHANGED <<store, now, writer, callvars, importvars, statvars,
                   judge, cur_price, rec, seen, status, apifyvars, regvars>>

\* line 197: get_buy_recommendation queries them a third time; lines 206-236
IntelRec(p) ==
    /\ pc[p] = "fake"
    /\ \E st \in StatsNow(store, asin[p], now) :
         rec' = [rec EXCEPT ![p] = BuyRecommendationCurrent(st, cur_price[p])]
    /\ status' = [status EXCEPT ![p] = "success"]
    /\ pc' = [pc EXCEPT ![p] = "done"]
    /\ UNCHANGED <<store, now, writer, callvars, importvars, statvars,
                   judge, cur_price, fake, seen, apifyvars, regvars>>

\* the provider fails, or answers a point before the clock starts and one at
\* day 0
ImportAnswers ==
    {FailRaw, OkRaw(<<[date |-> -1, price |-> <<15>>], [date |-> 0, price |-> <<15>>]>>)}

\* an assessment request, step by step, among visits to /check-electronics,
\* the scraper and imports
NextStore ==
    \/ Tick
    \/ \E a \in Requested, title \in Titles, cp \in EndpointPrices, cur \in Currencies :
           CheckElectronics(a, title, cp, cur)
    \/ \E a \in Requested, price \in ScrapedPrices : RecordPrice(a, price)
    \/ \E a \in Requested, r \in ImportAnswers : ImportHistory(1, a, "US", r)
    \/ \E a \in Requested, cp \in AssessedPrices : IntelTrack(1, a, cp)
    \/ IntelStats(1)
    \/ IntelFake(1)
    \/ IntelRec(1)
    \/ Return(1)

SpecStore == Init /\ [][NextStore]_vars

\* ---- properties ---------------------------------------------------------
WindowCount(p) == BagCardinality(InWindow(store, asin[p], days[p], now))

ImportedRows(b) == {r \in BagToSet(b) : r.source = "apify_import"}

\* no usable point: every price is null or not positive (or the list is empty)
NoUsablePoint(items) ==
    \A i \in 1..Len(items) : items[i].price = <<>> \/ items[i].price[1] <= 0

\* C1: a get_price_stats call whose first query found at least MIN_SAMPLES
\* rows in the window returns the statistics of exactly those rows and does
\* not invoke the provider, whatever the market and the import flag.
LocalPriority ==
    \A p \in Procs :
        (pc[p] = "done" /\ op[p] = "stats" /\ cnt1[p] >= MIN_SAMPLES) =>
            /\ apify_calls[p] = 0
            /\ raw[p].status = "none"
            /\ inserted[p] = EmptyBag
            /\ ~result[p].absent
            /\ \E r \in Latest(hist1[p]) :
                   result[p] = StatsRecord(hist1[p], r.price, "Local Database")
            /\ result[p].data_points = cnt1[p]

LocalPriorityWitness ==
    \E p \in Procs :
        /\ pc[p] = "done" /\ op[p] = "stats" /\ cnt1[p] >= MIN_SAMPLES
        /\ country[p] = "US" /\ use_keepa[p]
        /\ ~result[p].absent
        /\ result[p].min_30d < result[p].max_30d

UsAbsentInvokedApify ==
    \A p \in Procs :
        (pc[p] = "done" /\ op[p] = "stats" /\ country[p] = "US"
            /\ cnt1[p] < MIN_SAMPLES /\ result[p].absent) =>
            apify_calls[p] >= 1

\* C3 amended: the same, for calls with the import flag set.
UsAbsentInvokedApifyWhenImporting ==
    \A p \in Procs :
        (pc[p] = "done" /\ op[p] = "stats" /\ country[p] = "US"
            /\ use_keepa[p] /\ cnt1[p] < MIN_SAMPLES /\ result[p].absent) =>
            apify_calls[p] >= 1

UsAbsentWitness ==
    \E p \in Procs :
        /\ pc[p] = "done" /\ op[p] = "stats" /\ country[p] = "US"
        /\ use_keepa[p] /\ cnt1[p] < MIN_SAMPLES /\ result[p].absent
        /\ apify_calls[p] = 1

\* C4: an import that repeats the import before it, with the same provider
\* history, inserts no row.
ImportIdempotent ==
    \A p \in Procs :
        second[p] =>
            /\ pc[p] # "insert"
            /\ imported_count[p] = 0
            /\ inserted[p] = EmptyBag
            /\ pending[p] = EmptyBag

ImportIdempotentWitness ==
    \E p \in Procs :
        /\ second[p] /\ pc[p] = "done" /\ ret[p]
        /\ \E r \in ImportedRows(store) : r.asin = asin[p]

\* C5: the store never holds two imported rows with the same asin and
\* timestamp.
NoDuplicateImport ==
    \A r1, r2 \in ImportedRows(store) :
        (r1.asin = r2.asin /\ r1.timestamp = r2.timestamp) =>
            (r1 = r2 /\ store[r1] = 1)

\* C6 as stated: after a storage failure the points this import had inserted
\* are in the store.
PartialImportKept ==
    \A p \in Procs :
        pc[p] = "raised" => (inserted[p] \sqsubseteq store)

\* C6 amended: an import that failed before its commit leaves none of the
\* points it had inserted; an import that had committed leaves all of them.
FailedImportRolledBack ==
    \A p \in Procs :
        pc[p] = "raised" =>
            IF ret[p] THEN inserted[p] \sqsubseteq store
            ELSE \A r \in BagToSet(inserted[p]) : ~BagIn(r, store)

FailedImportWitness ==
    \E p \in Procs :
        pc[p] = "raised" /\ ~ret[p] /\ inserted[p] # EmptyBag

\* C7: every row an import adds has a positive price.
ImportedPricePositive ==
    /\ \A p \in Procs : \A r \in BagToSet(inserted[p]) : r.price > 0
    /\ \A r \in ImportedRows(store) : r.price > 0

ImportedPricePositiveWitness ==
    \E p \in Procs :
        /\ pc[p] = "done" /\ ret[p] /\ inserted[p] # EmptyBag
        /\ \E i \in 1..Len(raw[p].items) : raw[p].items[i].price = <<0>>

\* C8: a provider answer without a usable point ends the call as a failed
\* fetch does: the import returns False, nothing is inserted and
\* get_price_stats returns Absent.
ZeroUsableIsFailure ==
    \A p \in Procs :
        (pc[p] # "idle" /\ raw[p].status = "ok" /\ NoUsablePoint(raw[p].items)) =>
            /\ pc[p] = "done"
            /\ history_data[p].is_none
            /\ ~ret[p]
            /\ inserted[p] = EmptyBag
            /\ result[p].absent

ZeroUsableWitness ==
    \E p \in Procs :
        /\ pc[p] = "done" /\ op[p] = "stats" /\ raw[p].status = "ok"
        /\ Len(raw[p].items) = 2 /\ NoUsablePoint(raw[p].items)
        /\ \E i \in 1..2 : raw[p].items[i].price = <<0>>
        /\ cnt1[p] >= 2

\* C9: a row enters the store only from track_price (the price seen at the
\* visit, stamped with the clock) or as a point of the answer the provider
\* gave to the importing call; a get_price_stats call with no provider answer
\* and fewer than MIN_AFTER_IMPORT local rows returns Absent and inserts
\* nothing.
FromProvider(r, p) ==
    /\ raw[p].status = "ok"
    /\ r.source = "apify_import"
    /\ r.asin = asin[p]
    /\ \E i \in 1..Len(raw[p].items) :
           /\ raw[p].items[i].price = <<r.price>>
           /\ DateToTs(raw[p].items[i].date) = r.timestamp

FromVisit(r) ==
    /\ r.source = "extension"
    /\ r.timestamp = NowTs(now)
    /\ r.price = PriceOn(now)

NoSourceNoData(p) ==
    (pc[p] = "done" /\ op[p] = "stats" /\ raw[p].status # "ok"
        /\ cnt1[p] < MIN_AFTER_IMPORT) =>
        (result[p].absent /\ inserted[p] = EmptyBag /\ ~ret[p])

NoFabricationStep ==
    /\ \A r \in BagToSet(store') :
           CopiesIn(r, store') > CopiesIn(r, store) =>
               \/ AllIdle /\ AllIdle' /\ FromVisit(r)
               \/ \E p \in Procs : pc'[p] # "idle" /\ FromProvider(r, p)'
    /\ \A p \in Procs :
           /\ NoSourceNoData(p)'
           /\ (pc[p] = "idle" /\ pc'[p] = "done" /\ op'[p] = "stats"
                   /\ raw'[p].status # "ok") => store' = store

NoFabrication == [][NoFabricationStep]_vars

NoFabricationWitness ==
    \E p \in Procs :
        /\ pc[p] = "done" /\ op[p] = "stats" /\ country[p] = "US"
        /\ use_keepa[p] /\ raw[p].status = "fail" /\ cnt1[p] = 1
        /\ result[p].absent

\* C10: get_price_stats returns statistics exactly when the first query found
\* at least 5 rows, or the import succeeded and the window then holds at
\* least 2 rows; otherwise it returns Absent.
StatsExactlyWhen ==
    \A p \in Procs :
        (pc[p] = "done" /\ op[p] = "stats") =>
            (~result[p].absent <=>
                \/ cnt1[p] >= MIN_SAMPLES
                \/ /\ ret[p] /\ apify_calls[p] = 1
                   /\ WindowCount(p) >= MIN_AFTER_IMPORT)

StatsExactlyWhenWitness ==
    \E p \in Procs :
        /\ pc[p] = "done" /\ op[p] = "stats" /\ ret[p]
        /\ cnt1[p] = 1 /\ WindowCount(p) = 2
        /\ ~result[p].absent
        /\ result[p].source = "Apify (Historical)"

\* ---- properties of the judge ----------------------------------------------
Judged(p, kind) == pc[p] = "done" /\ judge[p] = kind

\* C11: with statistics present and current_price <= min * 1.01,
\* get_buy_recommendation returns buy_now with confidence 95 (0.95).
BuyNowWithinOnePercent ==
    \A p \in Procs :
        (Judged(p, "buy") /\ ~result[p].absent
            /\ cur_price[p] * 100 <= result[p].min_30d * 101) =>
            (rec[p].action = "buy_now" /\ rec[p].confidence = 95)

\* C12: when current_price is neither a buy_now nor a good_deal price and
\* current_price >= max * 0.95, the verdict is wait with confidence 90 (near
\* peak), also when current_price >= avg * 1.15; wait with confidence 85
\* (above average) is returned only when current_price < max * 0.95.
NearPeakFirst ==
    \A p \in Procs :
        (Judged(p, "buy") /\ ~result[p].absent
            /\ ~BuyNowRule(result[p], cur_price[p])
            /\ ~GoodDealRule(result[p], cur_price[p])) =>
            /\ NearPeakRule(result[p], cur_price[p]) =>
                   (rec[p].action = "wait" /\ rec[p].confidence = 90)
            /\ (rec[p].action = "wait" /\ rec[p].confidence = 85) =>
                   ~NearPeakRule(result[p], cur_price[p])

\* C13: for statistics min = 100, max = 200, avg = 150 the verdict is buy_now
\* for 100, neutral (FAIR) for 140, wait/90 (near peak) for 195, wait/85
\* (above average) for 175 and good_deal for 141.
VerdictTable ==
    \A p \in Procs :
        (Judged(p, "buy") /\ ~result[p].absent
            /\ result[p].min_30d = 100 /\ result[p].max_30d = 200
            /\ result[p].avg_num = 150 * result[p].data_points) =>
            /\ cur_price[p] = 100 => rec[p].action = "buy_now"
            /\ cur_price[p] = 140 => rec[p].action = "neutral"
            /\ cur_price[p] = 195 =>
                   (rec[p].action = "wait" /\ rec[p].confidence = 90)
            /\ cur_price[p] = 175 =>
                   (rec[p].action = "wait" /\ rec[p].confidence = 85)
            /\ cur_price[p] = 141 => rec[p].action = "good_deal"

FakeDiscountRule ==
    \A p \in Procs :
        (Judged(p, "fake") /\ ~result[p].absent) =>
            /\ fake[p].verified
            /\ fake[p].is_fake <=>
                   (result[p].max_30d * result[p].data_points * 100
                        > result[p].avg_num * 115)
            /\ (result[p].min_30d = 100 /\ result[p].max_30d = 200
                    /\ result[p].avg_num = 130 * result[p].data_points)
                   => fake[p].is_fake

FakeDiscountRuleWitness ==
    \E p \in Procs :
        /\ Judged(p, "fake") /\ ~result[p].absent
        /\ result[p].min_30d = 100 /\ result[p].max_30d = 200
        /\ result[p].avg_num = 130 * result[p].data_points
        /\ cur_price[p] = 100
        /\ fake[p].is_fake

\* C16: two detect_fake_discount calls of the current tracker that read the
\* same table and the same statistics and differ in current_price return
\* the same is_fake.
FakeVerdictIgnoresCurrentPrice ==
    \A p, q \in Procs :
        (Judged(p, "fake_current") /\ Judged(q, "fake_current")
            /\ asin[p] = asin[q] /\ seen[p] = seen[q]
            /\ result[p] = result[q]) =>
            fake[p].is_fake = fake[q].is_fake

\* C17: with the six visits priced 110, 120, 100, 115, 105, 100 and
\* current_price = 100 the assessment runs for market IN without a provider
\* call, the statistics are min 100, max 120, avg 650/6 with is_lowest true,
\* the buy verdict is buy_now with confidence 95 and the discount verdict is
\* is_fake = false, is_best_price.
EndToEndScenario ==
    \A p \in Procs :
        (pc[p] = "done" /\ judge[p] \in {"buy", "fake"}
            /\ seen[p] = StoreOf("A", ScenarioPrices) /\ cur_price[p] = 100) =>
            /\ country[p] = "IN"
            /\ apify_calls[p] = 0
            /\ raw[p].status = "none"
            /\ ~result[p].absent
            /\ result[p].min_30d = 100
            /\ result[p].max_30d = 120
            /\ result[p].avg_num = 650
            /\ result[p].data_points = 6
            /\ result[p].is_lowest
            /\ judge[p] = "buy" =>
                   (rec[p].action = "buy_now" /\ rec[p].confidence = 95)
            /\ judge[p] = "fake" =>
                   (fake[p].verified /\ ~fake[p].is_fake
                        /\ fake[p].kind = "is_best_price")

EndToEndScenarioWitness ==
    \E p \in Procs :
        /\ Judged(p, "buy")
        /\ seen[p] = StoreOf("A", ScenarioPrices) /\ cur_price[p] = 100
        /\ rec[p].action = "buy_now"
        /\ result[p].current = 100

\* C18: in every statistics record is_lowest is true exactly when
\* current <= min * 1.01 and is_highest exactly when current >= max * 0.99.
BoundaryFlagsTolerance ==
    \A p \in Procs :
        (pc[p] = "done" /\ judge[p] # "none" /\ ~result[p].absent) =>
            /\ result[p].is_lowest <=>
                   (result[p].current * 100 <= result[p].min_30d * 101)
            /\ result[p].is_highest <=>
                   (result[p].current * 100 >= result[p].max_30d * 99)

\* C19: in every statistics record is_lowest and is_highest are both true
\* only if min = max.
FlagsMonotone ==
    \A p \in Procs :
        (pc[p] = "done" /\ judge[p] # "none" /\ ~result[p].absent) =>
            ((result[p].is_lowest /\ result[p].is_highest) =>
                result[p].min_30d = result[p].max_30d)

FlagsMonotoneWitness ==
    \E p \in Procs :
        /\ Judged(p, "intelligence") /\ ~result[p].absent
        /\ result[p].is_lowest /\ result[p].is_highest
        /\ result[p].min_30d = result[p].max_30d
        /\ result[p].data_points >= 2

\* C20: a price-intelligence response that carries statistics has
\* min <= current_price <= max for the current_price of the request.
CurrentPriceInStats ==
    \A p \in Procs :
        (Judged(p, "intelligence") /\ status[p] = "success") =>
            /\ result[p].min_30d <= cur_price[p]
            /\ cur_price[p] <= result[p].max_30d


\* ---- provider failures and the polling loop ------------------------------
ProviderFailures ==
    (PostReplies \ {"started"}) \cup TerminalFailures \cup DatasetFailures
        \cup {"http_error", "timeout", "no_token", "deadline"}

\* C21: whatever way the provider fails (no token, 402, 429, HTTP error,
\* timeout, run FAILED / ABORTED / TIMED-OUT, deadline, no dataset, empty or
\* unparsable dataset), the fetch yields None, no step of the call changes
\* the store, and get_price_stats returns None instead of raising.
ProviderFailureAbsorbed ==
    [][\A p \in Procs :
          /\ last_status'[p] \in ProviderFailures => raw'[p] = FailRaw
          /\ raw'[p] = FailRaw =>
               /\ store' = store
               /\ pc'[p] # "raised"
               /\ pc'[p] = "done" => result'[p].absent /\ ~ret'[p]]_vars

ProviderFailureAbsorbedWitness ==
    /\ pc[1] = "done"
    /\ op[1] = "stats"
    /\ last_status[1] = "TIMED-OUT"
    /\ raw[1] = FailRaw
    /\ result[1].absent
    /\ store # EmptyBag

\* C27: a call makes at most 20 status requests; a run reported FAILED,
\* ABORTED or TIMED-OUT ends the loop at that request with None; the dataset
\* is fetched only after SUCCEEDED; after 20 requests without SUCCEEDED the
\* call returns None.
PollsBounded ==
    \A p \in Procs :
        /\ polls[p] <= 20
        /\ elapsed[p] <= MAX_WAIT
        /\ last_status[p] \in TerminalFailures =>
               raw[p] = FailRaw /\ pc[p] \in {"answered", "done"}
        /\ pc[p] = "dataset" => last_status[p] = "SUCCEEDED"
        /\ last_status[p] = "deadline" =>
               polls[p] = 20 /\ raw[p] = FailRaw /\ pc[p] \in {"answered", "done"}

PollsBoundedWitness ==
    /\ polls[1] = 20
    /\ last_status[1] = "deadline"
    /\ pc[1] = "done"
    /\ result[1].absent

\* C28: one get_price_stats call calls the provider at most once and sends
\* at most one request that starts an actor run, whatever the answers are.
OneRunPerCall ==
    \A p \in Procs : runs[p] <= 1 /\ apify_calls[p] <= 1 /\ runs[p] <= apify_calls[p]

OneRunPerCallWitness ==
    /\ pc[1] = "done"
    /\ op[1] = "stats"
    /\ runs[1] = 1
    /\ polls[1] > 1
    /\ ret[1]

\* C29: once a get_price_stats call has imported external history for the
\* product, no later get_price_stats call for it reaches the provider.
ImportOnlyOnce ==
    had_import => \A p \in Procs : pc[p] \notin {"post", "poll", "waited", "dataset"}

\* ---- storage failures and input checks of the endpoint -------------------
\* C22: a price-intelligence request during which track_price or the
\* statistics query met a database exception ends in a failure: it answers
\* neither "tracking_started" nor a verdict.
StorageFailureSurfaced ==
    \A p \in Procs :
        Judged(p, "intelligence") /\ db_error[p] =>
            status[p] \notin {"tracking_started", "success"}

\* C23: a price-intelligence request with current_price <= 0 is rejected
\* before any statement is sent to the database, and no stored observation
\* has a price <= 0.
InvalidInputRejected ==
    /\ \A p \in Procs :
           judge[p] = "intelligence" /\ cur_price[p] <= 0 =>
               pc[p] \notin {"tracked", "stats", "fake", "done"}
    /\ \A r \in BagToSet(store) : r.price > 0

\* ---- the price log and the registry --------------------------------------
\* C24: no step of track_price, record_price, /check-electronics,
\* import_price_history_to_db or a statistics query removes or alters a
\* stored observation: every row keeps at least the copies it had.
AppendOnly ==
    [][\A r \in BagToSet(store) : CopiesIn(r, store') >= CopiesIn(r, store)]_vars

AppendOnlyWitness ==
    /\ \E r \in BagToSet(store) : r.source = "scraper"
    /\ \E r \in BagToSet(store) : r.source = "apify_import"
    /\ \E r \in BagToSet(store) : r.source = "extension"
    /\ pc[1] = "done"
    /\ judge[1] = "intelligence"
    /\ BagCardinality(store) > MaxStored

\* C25: once track_price has run for a product, the product is in
\* tracked_products and the observation is stored; and every stored
\* observation belongs to a tracked product whose last_updated_at is not
\* earlier than the observation.
ProductForEveryObservation ==
    /\ \A p \in Procs :
           judge[p] = "intelligence" /\ pc[p] # "idle" =>
               /\ tracked[asin[p]].present
               /\ \E r \in RowsOf(store, asin[p]) : r.price = cur_price[p]
    /\ \A r \in BagToSet(store) :
           /\ tracked[r.asin].present
           /\ tracked[r.asin].last_updated >= r.timestamp.day

\* C26: track_price's upsert on a product already in tracked_products sets
\* last_updated_at to the current time and leaves title, category, market,
\* currency and first_seen_at as they were.
UpsertRefreshes ==
    [][\A p \in Procs :
          pc[p] = "idle" /\ pc'[p] = "tracked" /\ tracked[asin'[p]].present =>
              tracked'[asin'[p]] = [tracked[asin'[p]] EXCEPT !.last_updated = now]]_vars

\* C30: the verdicts of a "success" response are the judge functions applied
\* to the statistics of the same response.
VerdictsMatchStats ==
    \A p \in Procs :
        Judged(p, "intelligence") /\ status[p] = "success" =>
            /\ fake[p] = FakeDiscountCurrent(result[p], cur_price[p])
            /\ rec[p] = BuyRecommendationCurrent(result[p], cur_price[p])

====
